---- MODULE Spec2Model ----
(***************************************************************************)
(* Model of Codigo/Simulacion.py: a single-spin-flip Metropolis simulation *)
(* of the 2D Ising model on a periodic square lattice, swept over a range  *)
(* of temperatures.                                                        *)
(*                                                                         *)
(* Numbers.  The lattice holds the floats -1.0 and 1.0; the sums that      *)
(* var_termo accumulates are small integers, and its two divisions         *)
(* (E /= 2, M /= N) are kept as exact fractions [num, den] with den > 0.   *)
(* The rounding of float64 is not modelled.                                *)
(*                                                                         *)
(* Randomness.  Every draw of np.random is a nondeterministic choice: the  *)
(* cells of a fresh lattice, the selected site, and the outcome of the     *)
(* comparison p >= exp(-beta*Delta_E).  For Delta_E > 0 and the finite     *)
(* positive beta of the sweep, exp(-beta*Delta_E) lies strictly between 0  *)
(* and 1 while p ranges over [0, 1), so both outcomes can happen at every  *)
(* temperature; beta itself is therefore carried only as the index i.      *)
(***************************************************************************)
EXTENDS Integers, Sequences, FiniteSets, TLC

\* ------------------------------------------------------------ bounds
\* Largest lattice side of the simulation runs (all 2^(L*L) lattices).
MaxL == 2
\* Largest lattice side given to the neighbor resolver and the evaluator
\* when they are called on their own (uniform lattices only).
MaxLado == 9
\* Largest cant_iter (steps per temperature, plus the initial snapshot).
MaxIter == 3
\* Largest cant_Temp (number of temperature samples).
MaxTemp == 2

\* ------------------------------------------------------------ constants
\* Coupling strength.
J == 1

VARIABLES
    N,              \* number of cells (global N)
    long_lado,      \* lattice side (global long_lado = int(sqrt(N)))
    cant_iter,      \* global cant_iter
    t_estable,      \* global t_estable
    cant_Temp,      \* global cant_Temp
    tiempo_sim,     \* global tiempo_sim, the index sequence given to evolucion
    pc,             \* position of the program
    i,              \* main: the temperature index of the for loop
    j,              \* main: the counter of plotted temperature points
    s,              \* main/evolucion/cambio_espin: the lattice
    array_E,        \* evolucion: the energy series
    array_M,        \* evolucion: the magnetization series
    resto,          \* evolucion: what the iterator over tiempo_sim[1:] still holds
    paso,           \* cambio_espin: locals and return value of the last step
    array_E_prom,   \* main: averaged energy per temperature index
    array_M_prom,   \* main: averaged magnetization per temperature index
    pasos_total,    \* number of cambio_espin calls made so far
    s_edad,         \* number of cambio_espin calls applied to the lattice object s
    esc_serie,      \* per position, the assignments array_E[pos] = ... of this evolucion
    esc_prom,       \* per temperature index, the assignments array_E_prom[i] = ...
    ret_puro        \* the last stand-alone call of pos_vecinos or var_termo

vars == <<N, long_lado, cant_iter, t_estable, cant_Temp, tiempo_sim, pc, i, j, s,
          array_E, array_M, resto, paso, array_E_prom, array_M_prom,
          pasos_total, s_edad, esc_serie, esc_prom, ret_puro>>

\* ------------------------------------------------------------ fractions
Rat(n, d) == [num |-> n, den |-> d]

RatAdd(a, b) == Rat(a.num * b.den + b.num * a.den, a.den * b.den)

RatSub(a, b) == Rat(a.num * b.den - b.num * a.den, a.den * b.den)

RatEq(a, b) == a.num * b.den = b.num * a.den

RatLeq(a, b) == a.num * b.den <= b.num * a.den

RatPos(a) == a.num > 0

\* ------------------------------------------------------------ lattice
Lado(n) == CHOOSE r \in 0..n : r * r <= n /\ (r + 1) * (r + 1) > n

Celdas(L) == (0..(L - 1)) \X (0..(L - 1))

Lattices(L) == [Celdas(L) -> {-1, 1}]

None == [c \in {} |-> 0]

\* gen_array_espines: each cell is -1 (draw < 0.5) or 1.
gen_array_espines == Lattices(long_lado)

\* pos_vecinos with the index -1 sent to 0 instead of long_lado - 1.
pos_vecinosSinVuelta(ci, cj) ==
    LET pos  == <<ci - 1, ci + 1, cj - 1, cj + 1>>
        ii_1 == [k \in 1..4 |-> pos[k] = -1]
        ii_2 == [k \in 1..4 |-> pos[k] = long_lado]
        pos1 == [k \in 1..4 |-> IF ii_1[k] THEN 0 ELSE pos[k]]
    IN  [k \in 1..4 |-> IF ii_2[k] THEN 0 ELSE pos1[k]]

\* pos_vecinos: both masks are taken from the unwrapped indices, then applied.
pos_vecinos(ci, cj) ==
    LET pos  == <<ci - 1, ci + 1, cj - 1, cj + 1>>
        ii_1 == [k \in 1..4 |-> pos[k] = -1]
        ii_2 == [k \in 1..4 |-> pos[k] = long_lado]
        pos1 == [k \in 1..4 |-> IF ii_1[k] THEN long_lado - 1 ELSE pos[k]]
    IN  [k \in 1..4 |-> IF ii_2[k] THEN 0 ELSE pos1[k]]

\* The four neighbor spins of (ci, cj), in the order of line 56.
Vecinos(lat, ci, cj) ==
    LET pos == pos_vecinos(ci, cj)
    IN  lat[<<pos[1], cj>>] + lat[<<pos[2], cj>>] + lat[<<ci, pos[3]>>] + lat[<<ci, pos[4]>>]

\* The cell that the double loop of var_termo visits in iteration k (row-major).
Celda(k) == <<k \div long_lado, k % long_lado>>

\* What line 56 adds to E at cell c.
ELocal(lat, c) == (-J) * lat[c] * Vecinos(lat, c[1], c[2])

\* The sums that iterations k, k+1, ... of the double loop add to E and to M.
RECURSIVE SumaE(_, _)
SumaE(lat, k) ==
    IF k >= long_lado * long_lado THEN 0 ELSE ELocal(lat, Celda(k)) + SumaE(lat, k + 1)

RECURSIVE SumaM(_, _)
SumaM(lat, k) ==
    IF k >= long_lado * long_lado THEN 0 ELSE lat[Celda(k)] + SumaM(lat, k + 1)

\* var_termo without E /= 2.
var_termoSinMitad(lat) == [E |-> Rat(SumaE(lat, 0), 1), M |-> Rat(SumaM(lat, 0), N)]

\* var_termo with M /= long_lado in place of M /= N.
var_termoMPorLado(lat) == [E |-> Rat(SumaE(lat, 0), 2), M |-> Rat(SumaM(lat, 0), long_lado)]

\* var_termo: the double loop, then E /= 2 and M /= N.
var_termo(lat) == [E |-> Rat(SumaE(lat, 0), 2), M |-> Rat(SumaM(lat, 0), N)]

\* ------------------------------------------------------------ cambio_espin
\* cambio_espin, lines 75-77: the evaluation before the flip, the lattice with
\* the selected spin c negated, and the evaluation after the flip.
Medida(lat, c) ==
    [antes    |-> var_termo(lat),
     volteada |-> [lat EXCEPT ![c] = -lat[c]],
     despues  |-> var_termo([lat EXCEPT ![c] = -lat[c]])]

\* Decision drawing the acceptance whatever the sign of Delta_E.
DecisionSinUmbral(m, c, rechaza) ==
    LET Delta_E  == RatSub(m.despues.E, m.antes.E)
        revierte == rechaza
    IN  [s         |-> IF revierte THEN [m.volteada EXCEPT ![c] = -m.volteada[c]]
                                   ELSE m.volteada,
         pos_x     |-> c[1],
         pos_y     |-> c[2],
         E_0       |-> m.antes.E,
         M_0       |-> m.antes.M,
         E_f       |-> m.despues.E,
         M_f       |-> m.despues.M,
         Delta_E   |-> Delta_E,
         revertido |-> revierte,
         ret       |-> <<m.despues.E, m.antes.M>>]

\* Decision returning (E_f, M_f).
DecisionRetMf(m, c, rechaza) ==
    LET Delta_E  == RatSub(m.despues.E, m.antes.E)
        revierte == RatPos(Delta_E) /\ rechaza
    IN  [s         |-> IF revierte THEN [m.volteada EXCEPT ![c] = -m.volteada[c]]
                                   ELSE m.volteada,
         pos_x     |-> c[1],
         pos_y     |-> c[2],
         E_0       |-> m.antes.E,
         M_0       |-> m.antes.M,
         E_f       |-> m.despues.E,
         M_f       |-> m.despues.M,
         Delta_E   |-> Delta_E,
         revertido |-> revierte,
         ret       |-> <<m.despues.E, m.despues.M>>]

\* Decision whose revert negates s[pos_y, pos_x].
DecisionRevierteOtra(m, c, rechaza) ==
    LET Delta_E  == RatSub(m.despues.E, m.antes.E)
        revierte == RatPos(Delta_E) /\ rechaza
    IN  [s         |-> IF revierte THEN [m.volteada EXCEPT ![<<c[2], c[1]>>] = -m.volteada[<<c[2], c[1]>>]]
                                   ELSE m.volteada,
         pos_x     |-> c[1],
         pos_y     |-> c[2],
         E_0       |-> m.antes.E,
         M_0       |-> m.antes.M,
         E_f       |-> m.despues.E,
         M_f       |-> m.despues.M,
         Delta_E   |-> Delta_E,
         revertido |-> revierte,
         ret       |-> <<m.despues.E, m.antes.M>>]

\* Decision with Delta_E = E_0 - E_f.
DecisionDeltaInv(m, c, rechaza) ==
    LET Delta_E  == RatSub(m.antes.E, m.despues.E)
        revierte == RatPos(Delta_E) /\ rechaza
    IN  [s         |-> IF revierte THEN [m.volteada EXCEPT ![c] = -m.volteada[c]]
                                   ELSE m.volteada,
         pos_x     |-> c[1],
         pos_y     |-> c[2],
         E_0       |-> m.antes.E,
         M_0       |-> m.antes.M,
         E_f       |-> m.despues.E,
         M_f       |-> m.despues.M,
         Delta_E   |-> Delta_E,
         revertido |-> revierte,
         ret       |-> <<m.despues.E, m.antes.M>>]

\* cambio_espin, lines 79-86: Delta_E, the acceptance and the return value.
\* rechaza is the outcome of p >= exp(-beta*Delta_E), drawn only if Delta_E > 0.
\* The result holds the lattice left in place (s), the locals and the return
\* value (ret).
Decision(m, c, rechaza) ==
    LET Delta_E  == RatSub(m.despues.E, m.antes.E)
        revierte == RatPos(Delta_E) /\ rechaza
    IN  [s         |-> IF revierte THEN [m.volteada EXCEPT ![c] = -m.volteada[c]]
                                   ELSE m.volteada,
         pos_x     |-> c[1],
         pos_y     |-> c[2],
         E_0       |-> m.antes.E,
         M_0       |-> m.antes.M,
         E_f       |-> m.despues.E,
         M_f       |-> m.despues.M,
         Delta_E   |-> Delta_E,
         revertido |-> revierte,
         ret       |-> <<m.despues.E, m.antes.M>>]

\* One Metropolis step on lattice lat.  pos_x, pos_y are the two randint draws.
\* m names the values of lines 75-77, each computed once.
cambio_espin(lat, pos_x, pos_y, rechaza) ==
    CHOOSE r \in {Decision(m, <<pos_x, pos_y>>, rechaza) : m \in {Medida(lat, <<pos_x, pos_y>>)}} :
        TRUE

\* What a call of cambio_espin leaves behind besides the lattice.
Locales(r) == [f \in (DOMAIN r) \ {"s"} |-> r[f]]

\* ------------------------------------------------------------ arrays
Ones(n) == [p \in 0..(n - 1) |-> Rat(1, 1)]

Zeros(n) == [p \in 0..(n - 1) |-> Rat(0, 1)]

\* The position a numpy subscript resolves to: negative subscripts count from the end.
Posicion(idx, n) == IF idx < 0 THEN idx + n ELSE idx

\* Whether numpy accepts the subscript (otherwise it raises IndexError).
IndiceValido(idx, n) == Posicion(idx, n) \in 0..(n - 1)

\* The whole of tiempo_sim, its first value included.
Desde0(seq) == seq

\* tiempo_sim[1:]
Desde1(seq) == SubSeq(seq, 2, Len(seq))

\* np.arange(n)
Arange(n) == [k \in 1..n |-> k - 1]

RECURSIVE SumaRat(_, _, _)
SumaRat(arr, a, b) ==
    IF a > b THEN Rat(0, 1) ELSE RatAdd(arr[a], SumaRat(arr, a + 1, b))

\* promedios: np.mean(arr[t:]) of a series of length n, t < n.
promedios(arr, t, n) ==
    LET tot == SumaRat(arr, t, n - 1)
    IN  Rat(tot.num, tot.den * (n - t))

\* ------------------------------------------------------------ initial states
PasoNulo == [hecho |-> FALSE]

\* The state in which main enters its for loop, given the module's globals.
Arranque ==
    /\ pc = "main"
    /\ i = 0
    /\ j = 0
    /\ array_E = None
    /\ array_M = None
    /\ resto = <<>>
    /\ paso = PasoNulo
    /\ array_E_prom = Zeros(cant_Temp)
    /\ array_M_prom = Zeros(cant_Temp)
    /\ pasos_total = 0
    /\ s_edad = 0
    /\ esc_serie = None
    /\ esc_prom = [t \in 0..(cant_Temp - 1) |-> 0]
    /\ ret_puro = [fn |-> "none"]

\* The globals of lines 213-223, for a range of values of N, cant_iter, t_estable
\* and cant_Temp; tiempo_sim = np.arange(cant_iter).
Init ==
    /\ N \in {l * l : l \in 1..MaxL}
    /\ long_lado = Lado(N)
    /\ cant_iter \in 1..MaxIter
    /\ t_estable \in 0..(cant_iter - 1)
    /\ cant_Temp \in 1..MaxTemp
    /\ tiempo_sim = Arange(cant_iter)
    /\ s = None
    /\ Arranque

\* ------------------------------------------------------------ main and evolucion
globals == <<N, long_lado, cant_iter, t_estable, cant_Temp, tiempo_sim>>

\* The loop head generating a lattice at the first temperature only.
GenLatticeReusa ==
    /\ pc = "main"
    /\ i < cant_Temp
    /\ IF i = 0 THEN s' \in gen_array_espines /\ s_edad' = 0
                ELSE UNCHANGED <<s, s_edad>>
    /\ pc' = "evolucion"
    /\ UNCHANGED <<globals, i, j, array_E, array_M, resto, paso, array_E_prom,
                   array_M_prom, pasos_total, esc_serie, esc_prom, ret_puro>>

\* main, lines 194-197: the loop takes the next index and generates a lattice.
GenLattice ==
    /\ pc = "main"
    /\ i < cant_Temp
    /\ s' \in gen_array_espines
    /\ s_edad' = 0
    /\ pc' = "evolucion"
    /\ UNCHANGED <<globals, i, j, array_E, array_M, resto, paso, array_E_prom,
                   array_M_prom, pasos_total, esc_serie, esc_prom, ret_puro>>

\* evolucion, lines 100-106: the snapshot of the given lattice goes to position 0.
EvolucionInicio ==
    /\ pc = "evolucion"
    /\ LET v == var_termo(s)
       IN  /\ array_E' = [Ones(cant_iter) EXCEPT ![0] = v.E]
           /\ array_M' = [Ones(cant_iter) EXCEPT ![0] = v.M]
    /\ esc_serie' = [p \in 0..(cant_iter - 1) |-> IF p = 0 THEN 1 ELSE 0]
    /\ resto' = Desde1(tiempo_sim)
    /\ pc' = "evol_loop"
    /\ UNCHANGED <<globals, i, j, s, paso, array_E_prom, array_M_prom,
                   pasos_total, s_edad, esc_prom, ret_puro>>

\* evolucion, lines 108-111: one iteration of the loop over tiempo_sim[1:].
EvolPaso ==
    /\ pc = "evol_loop"
    /\ resto # <<>>
    /\ \E pos_x \in 0..(long_lado - 1), pos_y \in 0..(long_lado - 1), rechaza \in BOOLEAN :
       \E r \in {cambio_espin(s, pos_x, pos_y, rechaza)} :
         LET idx == Head(resto)
             pos == Posicion(idx, cant_iter)
         IN  /\ s' = r.s
             /\ paso' = Locales(r)
             /\ IF IndiceValido(idx, cant_iter)
                THEN /\ array_E' = [array_E EXCEPT ![pos] = r.ret[1]]
                     /\ array_M' = [array_M EXCEPT ![pos] = r.ret[2]]
                     /\ esc_serie' = [esc_serie EXCEPT ![pos] = @ + 1]
                     /\ pc' = "evol_loop"
                ELSE /\ UNCHANGED <<array_E, array_M, esc_serie>>
                     /\ pc' = "IndexError"
    /\ resto' = Tail(resto)
    /\ pasos_total' = pasos_total + 1
    /\ s_edad' = s_edad + 1
    /\ UNCHANGED <<globals, i, j, array_E_prom, array_M_prom, esc_prom, ret_puro>>

\* evolucion, line 113: the loop is over and the two series are returned.
EvolRetorno ==
    /\ pc = "evol_loop"
    /\ resto = <<>>
    /\ pc' = "retorno"
    /\ UNCHANGED <<globals, i, j, s, array_E, array_M, resto, paso, array_E_prom,
                   array_M_prom, pasos_total, s_edad, esc_serie, esc_prom, ret_puro>>

\* main, lines 200-207: the plotted points are counted, the averages stored.
MainGuarda ==
    /\ pc = "retorno"
    /\ j' = IF i = 0 \/ i = cant_Temp \div 4 \/ i = cant_Temp - 1 THEN j + 1 ELSE j
    /\ array_E_prom' = [array_E_prom EXCEPT ![i] = promedios(array_E, t_estable, cant_iter)]
    /\ array_M_prom' = [array_M_prom EXCEPT ![i] = promedios(array_M, t_estable, cant_iter)]
    /\ esc_prom' = [esc_prom EXCEPT ![i] = @ + 1]
    /\ i' = i + 1
    /\ pc' = "main"
    /\ UNCHANGED <<globals, s, array_E, array_M, resto, paso, pasos_total, s_edad,
                   esc_serie, ret_puro>>

\* main, lines 209-210: the loop is exhausted.
MainFin ==
    /\ pc = "main"
    /\ i >= cant_Temp
    /\ pc' = "done"
    /\ UNCHANGED <<globals, i, j, s, array_E, array_M, resto, paso, array_E_prom,
                   array_M_prom, pasos_total, s_edad, esc_serie, esc_prom, ret_puro>>

Next == GenLattice \/ EvolucionInicio \/ EvolPaso \/ EvolRetorno \/ MainGuarda \/ MainFin

Spec == Init /\ [][Next]_vars

\* ------------------------------------------------------------ index sequences
\* The same program for index sequences other than np.arange(cant_iter): the
\* first value, which evolucion skips, is 0; the others are repeated, skipped,
\* negative or not below cant_iter.
InitIndices ==
    /\ N \in {l * l : l \in 1..MaxL}
    /\ long_lado = Lado(N)
    /\ cant_iter \in 1..MaxIter
    /\ t_estable = 0
    /\ cant_Temp = 1
    /\ tiempo_sim \in UNION {{q \in [1..n -> (-(cant_iter + 1))..cant_iter] : q[1] = 0} :
                             n \in 1..MaxIter}
    /\ s = None
    /\ Arranque

SpecIndices == InitIndices /\ [][Next]_vars

\* ------------------------------------------------------------ stand-alone calls
Uniforme(L, v) == [c \in Celdas(L) |-> v]

\* pos_vecinos and var_termo called on their own, on a uniform lattice of any
\* side up to MaxLado.
InitPuro ==
    /\ N \in {l * l : l \in 1..MaxLado}
    /\ long_lado = Lado(N)
    /\ cant_iter = 1
    /\ t_estable = 0
    /\ cant_Temp = 1
    /\ tiempo_sim = Arange(cant_iter)
    /\ Arranque
    /\ \E v \in {-1, 1} : s = Uniforme(long_lado, v)

LlamaPosVecinos ==
    /\ pc = "main"
    /\ \E ci \in 0..(long_lado - 1), cj \in 0..(long_lado - 1) :
         ret_puro' = [fn |-> "pos_vecinos", i |-> ci, j |-> cj, ret |-> pos_vecinos(ci, cj)]
    /\ UNCHANGED <<globals, pc, i, j, s, array_E, array_M, resto, paso, array_E_prom,
                   array_M_prom, pasos_total, s_edad, esc_serie, esc_prom>>

LlamaVarTermo ==
    /\ pc = "main"
    /\ ret_puro' = [fn |-> "var_termo", ret |-> var_termo(s)]
    /\ UNCHANGED <<globals, pc, i, j, s, array_E, array_M, resto, paso, array_E_prom,
                   array_M_prom, pasos_total, s_edad, esc_serie, esc_prom>>

NextPuro == LlamaPosVecinos \/ LlamaVarTermo

SpecPuro == InitPuro /\ [][NextPuro]_vars

\* The sweep under the scheduling of a sequential program: it keeps running.
SpecJusto == Spec /\ WF_vars(Next)

\* ------------------------------------------------------------ properties
\* A transition that is one call of cambio_espin.
EsPaso == pasos_total' = pasos_total + 1

\* The cell that the call of cambio_espin just made selected.
Elegida == <<paso'.pos_x, paso'.pos_y>>

\* Periodic wraparound of an index in -1..long_lado.
Envuelve(v) == (v + long_lado) % long_lado

\* C1: pos_vecinos(i, j) is [i-1, i+1, j-1, j+1] with -1 wrapped to L-1 and L
\* wrapped to 0, so every index lies in [0, L); for L = 9 the corners give
\* [8, 1, 8, 1] and [7, 0, 7, 0]; for L = 1 all four indices are 0.
C1_PosVecinos ==
    ret_puro.fn = "pos_vecinos" =>
        LET ci == ret_puro.i
            cj == ret_puro.j
            r  == ret_puro.ret
        IN  /\ r = <<Envuelve(ci - 1), Envuelve(ci + 1), Envuelve(cj - 1), Envuelve(cj + 1)>>
            /\ \A k \in 1..4 : r[k] \in 0..(long_lado - 1)
            /\ (long_lado = 9 /\ ci = 0 /\ cj = 0) => r = <<8, 1, 8, 1>>
            /\ (long_lado = 9 /\ ci = 8 /\ cj = 8) => r = <<7, 0, 7, 0>>
            /\ long_lado = 1 => r = <<0, 0, 0, 0>>

C1_Witness ==
    /\ ret_puro.fn = "pos_vecinos"
    /\ long_lado = 9
    /\ ret_puro.i = 8
    /\ ret_puro.j = 8
    /\ ret_puro.ret = <<7, 0, 7, 0>>

\* C2: a step with Delta_E = E_f - E_0 <= 0 leaves the selected cell negated;
\* the selected cell is back at its old value only after a step with Delta_E > 0.
C2_FlipKept ==
    [][EsPaso =>
        /\ RatEq(paso'.Delta_E, RatSub(paso'.E_f, paso'.E_0))
        /\ ~RatPos(paso'.Delta_E) => s'[Elegida] = -s[Elegida]
        /\ s'[Elegida] = s[Elegida] => RatPos(paso'.Delta_E)
        /\ paso'.revertido => RatPos(paso'.Delta_E)]_vars

C2_Witness ==
    /\ pasos_total > 0
    /\ paso.Delta_E.num < 0
    /\ ~paso.revertido
    /\ s[<<paso.pos_x, paso.pos_y>>] \in {-1, 1}

C4_Lattice ==
    /\ [](s # None => s \in Lattices(long_lado))
    /\ [][EsPaso =>
            /\ \A c \in Celdas(long_lado) : c # Elegida => s'[c] = s[c]
            /\ paso'.revertido => s' = s]_vars

C4_Witness ==
    /\ s_edad >= 2
    /\ paso.revertido
    /\ long_lado = 2
    /\ s \in Lattices(long_lado)

\* C5: for the lattice of N = L*L cells that are all +1, var_termo returns
\* Magnetization = 1 and Energy = -2*J*N, for every side L >= 1.
C5_AllUp ==
    (ret_puro.fn = "var_termo" /\ s = Uniforme(long_lado, 1)) =>
        /\ RatEq(ret_puro.ret.M, Rat(1, 1))
        /\ RatEq(ret_puro.ret.E, Rat(-2 * J * N, 1))

C5_Witness ==
    /\ ret_puro.fn = "var_termo"
    /\ s = Uniforme(long_lado, 1)
    /\ long_lado = 2
    /\ ret_puro.ret.E.num = -2 * J * N * ret_puro.ret.E.den

\* A magnetization in [-1, 1].
MEnRango(m) == RatLeq(Rat(-1, 1), m) /\ RatLeq(m, Rat(1, 1))

\* An energy that is an integer multiple of J/2.
EMultiplo(e) == (2 * e.num) % (e.den * J) = 0

\* C6: every magnetization that var_termo returns lies in [-1, 1] and every
\* energy is an integer multiple of J/2, with N a perfect square and L its root.
C6_Ranges ==
    /\ N = long_lado * long_lado
    /\ pc \in {"evol_loop", "retorno"} => MEnRango(array_M[0]) /\ EMultiplo(array_E[0])
    /\ pasos_total > 0 =>
        /\ MEnRango(paso.M_0) /\ EMultiplo(paso.E_0)
        /\ MEnRango(paso.M_f) /\ EMultiplo(paso.E_f)

C6_Witness ==
    /\ pasos_total > 0
    /\ long_lado = 2
    /\ RatEq(paso.M_f, Rat(-1, 1))
    /\ RatEq(paso.E_f, Rat(-8 * J, 1))

\* C7: the sweep terminates; it takes the temperature indices in increasing
\* order, starts each from a freshly generated lattice, writes one entry per
\* index (cant_Temp entries in all) and makes at most cant_iter * cant_Temp
\* Metropolis steps.
C7_Sweep ==
    /\ <>(pc = "done")
    /\ [](pc = "evolucion" => (s_edad = 0 /\ s \in Lattices(long_lado)))
    /\ [](pasos_total <= cant_iter * cant_Temp)
    /\ [](pc = "done" =>
            /\ DOMAIN array_E_prom = 0..(cant_Temp - 1)
            /\ DOMAIN array_M_prom = 0..(cant_Temp - 1)
            /\ \A t \in 0..(cant_Temp - 1) : esc_prom[t] = 1)
    /\ [][/\ i' \in {i, i + 1}
          /\ esc_prom' # esc_prom =>
                (esc_prom' = [esc_prom EXCEPT ![i] = @ + 1] /\ i' = i + 1)
          /\ (pc = "main" /\ pc' = "evolucion") => s_edad' = 0]_vars

C7_Witness ==
    /\ pc = "done"
    /\ cant_Temp = 2
    /\ cant_iter = 3
    /\ pasos_total = 4
    /\ i = cant_Temp

\* C8: for tiempo_sim = 0..cant_iter-1, evolucion returns two series of length
\* cant_iter; position 0 holds the snapshot of the given lattice before any
\* step, position k in 1..cant_iter-1 the pair returned by the k-th step;
\* cant_iter - 1 steps are made and every position is written once.
C8_Series ==
    /\ [](tiempo_sim = Arange(cant_iter))
    /\ [](pc \in {"evol_loop", "retorno"} =>
            /\ DOMAIN array_E = 0..(cant_iter - 1)
            /\ DOMAIN array_M = 0..(cant_iter - 1))
    /\ [](pc = "retorno" =>
            /\ s_edad = cant_iter - 1
            /\ \A p \in 0..(cant_iter - 1) : esc_serie[p] = 1)
    /\ [][(pc = "evolucion" /\ pc' = "evol_loop") =>
            /\ s' = s
            /\ s_edad = 0
            /\ array_E'[0] = var_termo(s).E
            /\ array_M'[0] = var_termo(s).M]_vars
    /\ [][EsPaso =>
            /\ s_edad' = s_edad + 1
            /\ s_edad' \in 1..(cant_iter - 1)
            /\ array_E' = [array_E EXCEPT ![s_edad'] = paso'.ret[1]]
            /\ array_M' = [array_M EXCEPT ![s_edad'] = paso'.ret[2]]]_vars

C8_Witness ==
    /\ pc = "retorno"
    /\ cant_iter = 3
    /\ s_edad = 2
    /\ array_E[2] = paso.ret[1]
    /\ array_M[1] # array_M[2]

\* C9: for every index sequence given as tiempo_sim, every subscript that
\* evolucion uses on array_E and array_M resolves to a position in
\* 0..cant_iter-1, so that no write is refused as out of bounds.
C9_BoundsSafe == pc # "IndexError"

\* The local bond-energy delta of flipping cell c of lattice lat.
DeltaLocal(lat, c) == Rat(2 * J * lat[c] * Vecinos(lat, c[1], c[2]), 1)

\* C10 as stated: for every side L >= 1, the Delta_E of cambio_espin equals
\* 2*J*s(i,j)*(sum of the four neighbor spins), s(i,j) the pre-flip value.
C10_DeltaEveryL ==
    [][EsPaso => RatEq(paso'.Delta_E, DeltaLocal(s, Elegida))]_vars

\* C10 as amended: the same for every side L >= 2.
C10_DeltaLocal ==
    [][(EsPaso /\ long_lado >= 2) => RatEq(paso'.Delta_E, DeltaLocal(s, Elegida))]_vars

C10_Witness ==
    /\ pasos_total > 0
    /\ long_lado = 2
    /\ paso.Delta_E.num # 0
    /\ RatEq(paso.Delta_E, RatSub(paso.E_f, paso.E_0))

====
